---- MODULE Spec2Model ----
(***************************************************************************)
(* Model of the memetic CVRP solver: the decoder (Algo-GEN/ga.py), the     *)
(* feasibility and cost oracles (src/feasibility.py, src/cost.py), the     *)
(* genetic operators (Algo-GEN/selection.py, crossover.py, mutation.py),   *)
(* the 2-opt local search and the evolutionary loop (Algo-GEN/ga.py).      *)
(*                                                                         *)
(* Python lists are sequences; Python's 0-based index p is position p + 1  *)
(* here, so the slice x[a:b] is SubSeq(x, a + 1, b).  A call that raises   *)
(* returns a record whose field exc names the exception.                   *)
(***************************************************************************)
EXTENDS Integers, Sequences, FiniteSets, TLC

VARIABLES
    pc,         \* position of the driver of the operation under study
    instance,   \* the problem instance: depot, customers, demands, capacity, coords
    args,       \* the arguments of the call under study
    ret,        \* what the call returned (or raised)
    ga          \* the local variables of genetic_algorithm

vars == <<pc, instance, args, ret, ga>>

-----------------------------------------------------------------------------
(* Bounds of the model *)

NumCustomers == 3       \* customers are 1..m for m <= NumCustomers, the depot is 0
MaxDemand == 2          \* demands range over 0..MaxDemand
MaxCapacity == 2        \* capacities range over 1..MaxCapacity

-----------------------------------------------------------------------------
(* Sequences and sets *)

Range(s) == {s[i] : i \in DOMAIN s}

\* the permutations of the set S, as sequences
Perms(S) ==
    {s \in [1..Cardinality(S) -> S] : \A x \in S : \E i \in DOMAIN s : s[i] = x}

IsPermutationOf(s, S) ==
    /\ Len(s) = Cardinality(S)
    /\ Range(s) = S
    /\ \A i, j \in DOMAIN s : s[i] = s[j] => i = j

RECURSIVE Concat(_)
Concat(ss) == IF ss = <<>> THEN <<>> ELSE Head(ss) \o Concat(Tail(ss))

\* route[1:-1]
Interior(route) == SubSeq(route, 2, Len(route) - 1)

RECURSIVE SumDemands(_, _)
SumDemands(nodes, demands) ==
    IF nodes = <<>> THEN 0
    ELSE demands[Head(nodes)] + SumDemands(Tail(nodes), demands)

-----------------------------------------------------------------------------
(* ga.py: decode *)

\* the body of `for c in chromosome`, from position idx on, then the closing
\* of the route in progress
\* mutant of DecodeLoop: the route is closed as soon as it is full (`>=`)
RECURSIVE DecodeLoop_ClosesWhenFull(_, _, _, _, _, _)
DecodeLoop_ClosesWhenFull(chromosome, inst, idx, routes, route, load) ==
    IF idx > Len(chromosome)
    THEN Append(routes, Append(route, inst.depot))
    ELSE LET c == chromosome[idx]
             demand == inst.demands[c]
         IN  IF load + demand >= inst.capacity
             THEN DecodeLoop_ClosesWhenFull(chromosome, inst, idx + 1,
                             Append(routes, Append(route, inst.depot)),
                             <<inst.depot, c>>, demand)
             ELSE DecodeLoop_ClosesWhenFull(chromosome, inst, idx + 1,
                             routes, Append(route, c), load + demand)

RECURSIVE DecodeLoop(_, _, _, _, _, _)
DecodeLoop(chromosome, inst, idx, routes, route, load) ==
    IF idx > Len(chromosome)
    THEN Append(routes, Append(route, inst.depot))
    ELSE LET c == chromosome[idx]
             demand == inst.demands[c]
         IN  IF load + demand > inst.capacity
             THEN DecodeLoop(chromosome, inst, idx + 1,
                             Append(routes, Append(route, inst.depot)),
                             <<inst.depot, c>>, demand)
             ELSE DecodeLoop(chromosome, inst, idx + 1,
                             routes, Append(route, c), load + demand)

decode(chromosome, inst) ==
    DecodeLoop(chromosome, inst, 1, <<>>, <<inst.depot>>, 0)

-----------------------------------------------------------------------------
(* src/feasibility.py: is_solution_feasible *)

\* `for node in route[1:-1]`: [dup |-> a node was already served,
\*  key_error |-> demands[node] raised KeyError, served |-> the set after the
\*  loop, load |-> the load after the loop]
RECURSIVE ServeNodes(_, _, _, _)
ServeNodes(nodes, served, load, demands) ==
    IF nodes = <<>>
    THEN [dup |-> FALSE, key_error |-> FALSE, served |-> served, load |-> load]
    ELSE IF Head(nodes) \in served
         THEN [dup |-> TRUE, key_error |-> FALSE, served |-> served, load |-> load]
         ELSE IF Head(nodes) \notin DOMAIN demands
              THEN [dup |-> FALSE, key_error |-> TRUE,
                    served |-> served \cup {Head(nodes)}, load |-> load]
              ELSE ServeNodes(Tail(nodes), served \cup {Head(nodes)},
                              load + demands[Head(nodes)], demands)

\* `for route in solution` and the final comparison: "True", "False", or the
\* exception raised (route[0] of an empty route, demands[node] of a node
\* without a demand)
RECURSIVE FeasibleLoop(_, _, _, _, _)
FeasibleLoop(solution, served_clients, demands, capacity, depot) ==
    IF solution = <<>>
    THEN IF served_clients = (DOMAIN demands) \ {depot} THEN "True" ELSE "False"
    ELSE LET route == Head(solution) IN
         IF route = <<>> THEN "IndexError"
         ELSE IF route[1] # depot \/ route[Len(route)] # depot
         THEN "False"
         ELSE LET r == ServeNodes(Interior(route), served_clients, 0, demands) IN
              IF r.dup THEN "False"
              ELSE IF r.key_error THEN "KeyError"
              ELSE IF r.load > capacity THEN "False"
              ELSE FeasibleLoop(Tail(solution), r.served, demands, capacity, depot)

is_solution_feasible(solution, demands, capacity, depot) ==
    FeasibleLoop(solution, {}, demands, capacity, depot)

-----------------------------------------------------------------------------
(* The instances of the data model: a depot, customers 1..m, a demand per   *)
(* node (the depot's is 0, as in the instance files), a positive capacity.  *)

Instances ==
    UNION {{[depot |-> 0, customers |-> 1..m, demands |-> d, capacity |-> cap] :
               d \in {f \in [0..m -> 0..MaxDemand] : f[0] = 0},
               cap \in 1..MaxCapacity} : m \in 0..NumCustomers}

\* the instance of unit demands and unit capacity on the given customers
UnitInstance(customers) ==
    [depot |-> 0, customers |-> customers,
     demands |-> [n \in customers \cup {0} |-> IF n = 0 THEN 0 ELSE 1], capacity |-> 1]

\* the value of ga outside a run of genetic_algorithm
NotRunning == [gen |-> 0]

-----------------------------------------------------------------------------
(* SpecDecode: decode applied to a permutation of the customers of an       *)
(* instance, then the feasibility check applied to its result, as the       *)
(* callers do (main.py, experiment.py, run_All_Instance.py).                *)

\* the instance of the end-to-end scenario: depot 1, customers 2..5 of
\* demand 3, capacity 6
ScenarioInstance ==
    [depot |-> 1, customers |-> 2..5,
     demands |-> [n \in 1..5 |-> IF n = 1 THEN 0 ELSE 3], capacity |-> 6]

InitDecode ==
    /\ pc = "decode"
    /\ instance \in Instances \cup {ScenarioInstance}
    /\ args \in {[chromosome |-> c] : c \in Perms(instance.customers)}
    /\ ret = [routes |-> <<>>, feasible |-> ""]
    /\ ga = NotRunning

CallDecode ==
    /\ pc = "decode"
    /\ pc' = "check"
    /\ ret' = [ret EXCEPT !.routes = decode(args.chromosome, instance)]
    /\ UNCHANGED <<instance, args, ga>>

CallFeasible ==
    /\ pc = "check"
    /\ pc' = "done"
    /\ ret' = [ret EXCEPT !.feasible =
                  is_solution_feasible(ret.routes, instance.demands,
                                       instance.capacity, instance.depot)]
    /\ UNCHANGED <<instance, args, ga>>

NextDecode == CallDecode \/ CallFeasible

SpecDecode == InitDecode /\ [][NextDecode]_vars

\* the interiors of the routes, one after the other
Interiors(routes) == Concat([r \in DOMAIN routes |-> Interior(routes[r])])

\* C1: for every instance of the data model and every permutation of its
\* customers, the interiors of the routes decode returns hold every customer
\* exactly once and nothing else, and no route's interior demand exceeds
\* the capacity.
C1_DecodePartitionWithinCapacity ==
    pc \in {"check", "done"} =>
        /\ IsPermutationOf(Interiors(ret.routes), instance.customers)
        /\ \A r \in DOMAIN ret.routes :
              SumDemands(Interior(ret.routes[r]), instance.demands) <= instance.capacity

\* C2: is_solution_feasible(decode(chromosome, instance), ...) is true for
\* every instance and every permutation of its customers.
C2_DecodeIsFeasible ==
    pc = "done" => ret.feasible = "True"

\* the load of the first k customers of a route's interior
PrefixLoad(interior, k, demands) == SumDemands(SubSeq(interior, 1, k), demands)

\* C18: decode is greedy and keeps the order: the interiors of the routes,
\* one after the other, are the chromosome; every route is closed by the
\* depot; within a route a customer follows another only where the load with
\* it is within the capacity, and a route is closed where the load with the
\* next customer exceeds the capacity (for every route but the last, its
\* load plus the demand of the next route's first customer is > capacity);
\* with depot 1, demand 3 for customers 2..5 and capacity 6, [2,3,4,5]
\* decodes to [1,2,3,1] and [1,4,5,1].
C18_DecodeGreedyInOrder ==
    pc \in {"check", "done"} =>
        LET routes == ret.routes
            demands == instance.demands
        IN  /\ Interiors(routes) = args.chromosome
            /\ \A r \in DOMAIN routes :
                  /\ Len(routes[r]) >= 2
                  /\ routes[r][1] = instance.depot
                  /\ routes[r][Len(routes[r])] = instance.depot
                  /\ \A k \in (IF r = 1 THEN 1 ELSE 2)..Len(Interior(routes[r])) :
                        PrefixLoad(Interior(routes[r]), k, demands) <= instance.capacity
            /\ \A r \in 1..(Len(routes) - 1) :
                  SumDemands(Interior(routes[r]), demands)
                      + demands[Interior(routes[r + 1])[1]] > instance.capacity
            /\ (instance = ScenarioInstance /\ args.chromosome = <<2, 3, 4, 5>>)
                  => routes = <<<<1, 2, 3, 1>>, <<1, 4, 5, 1>>>>

\* the scenario was decoded into its two routes, the first one full
C18_Witness ==
    /\ pc = "check"
    /\ instance = ScenarioInstance
    /\ args.chromosome = <<2, 3, 4, 5>>
    /\ ret.routes = <<<<1, 2, 3, 1>>, <<1, 4, 5, 1>>>>

-----------------------------------------------------------------------------
(* crossover.py, mutation.py: the crossover and mutation operators *)

\* an empty slot of a child under construction (`[None] * size`)
NoneVal == -1

Ok(v) == [exc |-> "none", val |-> v]
Raise(e) == [exc |-> e, val |-> <<>>]

\* sorted(random.sample(range(size), 2)): the pairs <<a, b>> it can return;
\* random.sample raises ValueError when size < 2
SortedSample2(size) == {<<a, b>> \in (0..size - 1) \X (0..size - 1) : a < b}

\* child = [None] * size; child[a:b] = p1[a:b]
SliceCopy(p1, a, b) ==
    [i \in 1..Len(p1) |-> IF a + 1 <= i /\ i <= b THEN p1[i] ELSE NoneVal]

\* p2.index(x): the 0-based index of the first x in p2 (ValueError when absent)
Index(p2, x) == (CHOOSE k \in DOMAIN p2 : p2[k] = x /\ \A l \in 1..k - 1 : p2[l] # x) - 1

\* order_crossover, `for i in range(size)`: fills the empty slots from fill
RECURSIVE OxFillLoop(_, _, _, _)
OxFillLoop(child, fill, i, ptr) ==
    IF i >= Len(child) THEN Ok(child)
    ELSE IF child[i + 1] = NoneVal
         THEN IF ptr >= Len(fill) THEN Raise("IndexError")
              ELSE OxFillLoop([child EXCEPT ![i + 1] = fill[ptr + 1]], fill, i + 1, ptr + 1)
         ELSE OxFillLoop(child, fill, i + 1, ptr)

\* order_crossover once the cut points a < b are drawn
order_crossover(p1, p2, a, b) ==
    LET child == SliceCopy(p1, a, b)
        fill == SelectSeq(p2, LAMBDA x : x \notin Range(child))
    IN  OxFillLoop(child, fill, 0, 0)

\* mutant of PmxChain: the value is placed where the first turn of the chain
\* points, whether the slot is empty or not
PmxChain_FirstTurn(p1, p2, c1, pos, turns) == Index(p2, p1[pos + 1])

\* pmx_crossover, `while True`: follows the chain from pos until an empty slot
\* of c1 is found and returns its 0-based index; c1 does not change inside the
\* loop, so more than size turns mean the loop never ends (reported as -1)
RECURSIVE PmxChain(_, _, _, _, _)
PmxChain(p1, p2, c1, pos, turns) ==
    LET mapped == p1[pos + 1]
        npos == Index(p2, mapped)
    IN  IF c1[npos + 1] = NoneVal THEN npos
        ELSE IF turns > Len(p1) THEN NoneVal
        ELSE PmxChain(p1, p2, c1, npos, turns + 1)

\* pmx_crossover, `for i in range(a, b)`
RECURSIVE PmxMapLoop(_, _, _, _, _)
PmxMapLoop(p1, p2, c1, i, b) ==
    IF i >= b THEN Ok(c1)
    ELSE IF p2[i + 1] \notin Range(c1)
         THEN LET pos == PmxChain(p1, p2, c1, i, 0) IN
              IF pos = NoneVal THEN Raise("diverges")
              ELSE PmxMapLoop(p1, p2, [c1 EXCEPT ![pos + 1] = p2[i + 1]], i + 1, b)
         ELSE PmxMapLoop(p1, p2, c1, i + 1, b)

\* pmx_crossover once the cut points a < b are drawn
pmx_crossover(p1, p2, a, b) ==
    LET mapped == PmxMapLoop(p1, p2, SliceCopy(p1, a, b), a, b) IN
    IF mapped.exc # "none" THEN mapped
    ELSE Ok([i \in 1..Len(p1) |->
                IF mapped.val[i] = NoneVal THEN p2[i] ELSE mapped.val[i]])

\* swap_mutation once the positions i, j are drawn (random.sample(range(len(c)), 2))
swap_mutation(chrom, i, j) ==
    [chrom EXCEPT ![i + 1] = chrom[j + 1], ![j + 1] = chrom[i + 1]]

-----------------------------------------------------------------------------
(* SpecOperators: each crossover and mutation operator applied to valid     *)
(* chromosomes (permutations of the customers 1..m, 1 <= m <= NumCustomers) *)
(* for every outcome of its random draws.                                   *)

InitOperators ==
    /\ pc = "call"
    /\ args \in UNION {{[p1 |-> x, p2 |-> y] : x, y \in Perms(1..m)} : m \in 1..NumCustomers}
    /\ instance = UnitInstance(Range(args.p1))
    /\ ret = [exc |-> "none", val |-> <<>>, cuts |-> <<>>]
    /\ ga = NotRunning

\* the record of a call: what it returned or raised, and the draws it made
Called(r, cuts) == [exc |-> r.exc, val |-> r.val, cuts |-> cuts]

CallOrderCrossover ==
    /\ pc = "call"
    /\ pc' = "order_crossover"
    /\ IF Len(args.p1) < 2
       THEN ret' = Called(Raise("ValueError"), <<>>)
       ELSE \E ab \in SortedSample2(Len(args.p1)) :
                ret' = Called(order_crossover(args.p1, args.p2, ab[1], ab[2]), ab)
    /\ UNCHANGED <<instance, args, ga>>

CallPmxCrossover ==
    /\ pc = "call"
    /\ pc' = "pmx_crossover"
    /\ IF Len(args.p1) < 2
       THEN ret' = Called(Raise("ValueError"), <<>>)
       ELSE \E ab \in SortedSample2(Len(args.p1)) :
                ret' = Called(pmx_crossover(args.p1, args.p2, ab[1], ab[2]), ab)
    /\ UNCHANGED <<instance, args, ga>>

CallSwapMutation ==
    /\ pc = "call"
    /\ pc' = "swap_mutation"
    /\ IF Len(args.p1) < 2
       THEN ret' = Called(Raise("ValueError"), <<>>)
       ELSE \E i, j \in 0..Len(args.p1) - 1 :
                /\ i # j
                /\ ret' = Called(Ok(swap_mutation(args.p1, i, j)), <<i, j>>)
    /\ UNCHANGED <<instance, args, ga>>

NextOperators == CallOrderCrossover \/ CallPmxCrossover \/ CallSwapMutation

SpecOperators == InitOperators /\ [][NextOperators]_vars

\* C4: for all permutations A and B of the same customer set, a single
\* customer included, order_crossover(A, B) returns normally a permutation of
\* that set: same length, every customer once, no empty slot left.
C4_OrderCrossoverClosure ==
    pc = "order_crossover" =>
        /\ ret.exc = "none"
        /\ NoneVal \notin Range(ret.val)
        /\ IsPermutationOf(ret.val, Range(args.p1))

\* C5: for all permutations A and B of the same customer set and every choice
\* of the cut points a < b, pmx_crossover(A, B) terminates and returns a
\* permutation of that set whose positions a..b-1 hold A's values.
C5_PmxCrossoverClosure ==
    (pc = "pmx_crossover" /\ ret.cuts # <<>>) =>
        /\ ret.exc = "none"
        /\ IsPermutationOf(ret.val, Range(args.p1))
        /\ \A i \in ret.cuts[1] + 1..ret.cuts[2] : ret.val[i] = args.p1[i]

\* a run of pmx_crossover in which the value chain was followed for more than
\* one turn: a value of B's slice that A's slice does not hold was placed
\* outside the slice, and not at the first position the chain visited
C5_Witness ==
    /\ pc = "pmx_crossover"
    /\ ret.cuts # <<>>
    /\ ret.exc = "none"
    /\ \E i \in ret.cuts[1] + 1..ret.cuts[2] :
          /\ \A k \in ret.cuts[1] + 1..ret.cuts[2] : args.p1[k] # args.p2[i]
          /\ \E k \in DOMAIN ret.val :
                /\ (k <= ret.cuts[1] \/ k > ret.cuts[2])
                /\ ret.val[k] = args.p2[i]
                /\ k # Index(args.p2, args.p1[i]) + 1    \* more than one turn

\* C6: for every valid permutation C, length 1 included, swap_mutation(C)
\* returns normally a permutation of the same set equal to C except that the
\* values at two distinct positions are exchanged.
C6_SwapMutationClosure ==
    pc = "swap_mutation" =>
        /\ ret.exc = "none"
        /\ IsPermutationOf(ret.val, Range(args.p1))
        /\ \E i, j \in DOMAIN args.p1 :
              /\ i # j
              /\ ret.val = [args.p1 EXCEPT ![i] = args.p1[j], ![j] = args.p1[i]]

-----------------------------------------------------------------------------
(* selection.py: the selection operators.  A fitness is a non-negative      *)
(* number; the draws of random.uniform(0, total) are taken at the integers  *)
(* 0..total, which reach every interval between two cumulative sums.        *)

MaxPopulation == 3      \* populations hold 1..MaxPopulation chromosomes
MaxFitness == 2         \* fitnesses range over 0..MaxFitness

\* the default k of tournament_selection
TournamentK == 3

\* what a selection call returns: a chromosome, a list of chromosomes or None
Chromosome(c) == [exc |-> "none", type |-> "chromosome", val |-> c]
ChromosomeList(l) == [exc |-> "none", type |-> "list of chromosomes", val |-> l]
ReturnsNone == [exc |-> "none", type |-> "NoneType", val |-> <<>>]
Raises(e) == [exc |-> e, type |-> "NoneType", val |-> <<>>]

RECURSIVE SumSeq(_)
SumSeq(s) == IF s = <<>> THEN 0 ELSE Head(s) + SumSeq(Tail(s))

\* tournament_selection: random.sample raises ValueError when the population
\* holds fewer than k pairs; max returns the first pair of the sample with the
\* highest fitness, and the sample comes in any order
tournament_selection(population, fitnesses) ==
    IF Len(population) < TournamentK THEN {Raises("ValueError")}
    ELSE {Chromosome(population[i]) :
            i \in {i \in DOMAIN population :
                     \E S \in SUBSET DOMAIN population :
                        /\ Cardinality(S) = TournamentK
                        /\ i \in S
                        /\ \A j \in S : fitnesses[j] <= fitnesses[i]}}

\* the loop shared by roulette_wheel_selection and rank_selection:
\* `current += w; if current >= pick: return population[i]`; falling off the
\* end of the loop returns None
RECURSIVE WheelLoop(_, _, _, _, _)
WheelLoop(population, weights, pick, i, current) ==
    IF i > Len(population) THEN ReturnsNone
    ELSE IF current + weights[i] >= pick THEN Chromosome(population[i])
         ELSE WheelLoop(population, weights, pick, i + 1, current + weights[i])

roulette_wheel_selection(population, fitnesses) ==
    LET total == SumSeq(fitnesses) IN
    {WheelLoop(population, fitnesses, pick, 1, 0) : pick \in 0..total}

\* deterministic_selection behind its wrapper: the first index of highest fitness
deterministic_selection(population, fitnesses) ==
    IF population = <<>> \/ fitnesses = <<>> THEN {ReturnsNone}
    ELSE LET best_idx == CHOOSE i \in DOMAIN fitnesses :
                            /\ \A j \in DOMAIN fitnesses : fitnesses[j] <= fitnesses[i]
                            /\ \A j \in 1..i - 1 : fitnesses[j] < fitnesses[i]
         IN  {Chromosome(population[best_idx])}

\* uniform_selection(population, num_select) behind its wrapper, which passes
\* num_select = len(population): random.sample returns a list of num_select
\* members, here the whole population in some order
uniform_selection(population, num_select) ==
    IF num_select > Len(population) THEN {Raises("ValueError")}
    ELSE {ChromosomeList([k \in 1..num_select |-> population[f[k]]]) :
            f \in {f \in [1..num_select -> DOMAIN population] :
                     \A k, l \in 1..num_select : f[k] = f[l] => k = l}}

\* rank_selection: ranks[idx] = len(population) - rank, rank the position of
\* idx in the stable descending sort by fitness
Ranks(fitnesses) ==
    [idx \in DOMAIN fitnesses |->
        Len(fitnesses)
          - Cardinality({j \in DOMAIN fitnesses :
                            \/ fitnesses[j] > fitnesses[idx]
                            \/ (fitnesses[j] = fitnesses[idx] /\ j < idx)})]

rank_selection(population, fitnesses) ==
    LET ranks == Ranks(fitnesses)
        total == SumSeq(ranks)
    IN  {WheelLoop(population, ranks, pick, 1, 0) : pick \in 0..total}

\* remainder_selection, the draw on the remainders: the 0-based index appended
\* for the draw rand, NoneVal when the `for` ends without a break
RECURSIVE RemainderDraw(_, _, _, _)
RemainderDraw(remainders, rand, i, cumulative) ==
    IF i > Len(remainders) THEN NoneVal
    ELSE IF rand <= cumulative + remainders[i] THEN i - 1
         ELSE RemainderDraw(remainders, rand, i + 1, cumulative + remainders[i])

\* remainder_selection, `while len(selected_indices) < N`: the lists of
\* indices the loop can end with; a turn that appends nothing is reported as
\* the list <<NoneVal>> (the loop would turn again on the same state)
RECURSIVE RemainderWhile(_, _, _, _)
RemainderWhile(selected_indices, N, remainders, total_remainder) ==
    IF Len(selected_indices) >= N THEN {selected_indices}
    ELSE IF total_remainder > 0
         THEN UNION {LET i == RemainderDraw(remainders, rand, 1, 0) IN
                     IF i = NoneVal THEN {<<NoneVal>>}
                     ELSE RemainderWhile(Append(selected_indices, i), N,
                                         remainders, total_remainder) :
                        rand \in 0..total_remainder}
         ELSE UNION {RemainderWhile(Append(selected_indices, i), N,
                                    remainders, total_remainder) : i \in 0..N - 1}

\* [i] * count for each i in turn
RECURSIVE Copies(_, _)
Copies(counts, i) ==
    IF i > Len(counts) THEN <<>>
    ELSE [k \in 1..counts[i] |-> i - 1] \o Copies(counts, i + 1)

\* remainder_selection past the guard (total_fit # 0); E_values[i] =
\* N * fitnesses[i] / total_fit is kept as its integer part and the numerator
\* of its remainder over total_fit
RemainderSampling(population, fitnesses) ==
    LET N == Len(population)
        total_fit == SumSeq(fitnesses)
        counts == [i \in DOMAIN fitnesses |-> (N * fitnesses[i]) \div total_fit]
        remainders == [i \in DOMAIN fitnesses |-> (N * fitnesses[i]) % total_fit]
        lists == RemainderWhile(Copies(counts, 1), N, remainders, SumSeq(remainders))
    IN  UNION {IF l = <<NoneVal>> THEN {Raises("never returns")}
               ELSE IF l = <<>> THEN {Raises("IndexError")}
               ELSE {Chromosome(population[l[k] + 1]) : k \in DOMAIN l} :
                  l \in lists}

\* mutant of remainder_selection: no guard on a total fitness of zero
remainder_selection_NoZeroGuard(population, fitnesses) ==
    IF SumSeq(fitnesses) = 0 THEN {Raises("ZeroDivisionError")}
    ELSE RemainderSampling(population, fitnesses)

remainder_selection(population, fitnesses) ==
    IF SumSeq(fitnesses) = 0
    THEN {Chromosome(population[i]) : i \in DOMAIN population}
    ELSE RemainderSampling(population, fitnesses)

-----------------------------------------------------------------------------
(* SpecSelection: each selection operator, as main.py and                   *)
(* run_All_Instance.py wire it, called as select(population, fitnesses) on  *)
(* a non-empty population.                                                  *)

InitSelection ==
    /\ pc = "call"
    /\ instance = UnitInstance({1, 2})
    /\ args \in UNION {{[population |-> p, fitnesses |-> f] :
                           p \in [1..n -> Perms(instance.customers)],
                           f \in [1..n -> 0..MaxFitness]} : n \in 1..MaxPopulation}
    /\ ret = Raises("not called")
    /\ ga = NotRunning

CallTournament ==
    /\ pc = "call"
    /\ pc' = "tournament_selection"
    /\ ret' \in tournament_selection(args.population, args.fitnesses)
    /\ UNCHANGED <<instance, args, ga>>

CallRoulette ==
    /\ pc = "call"
    /\ pc' = "roulette_wheel_selection"
    /\ ret' \in roulette_wheel_selection(args.population, args.fitnesses)
    /\ UNCHANGED <<instance, args, ga>>

CallRank ==
    /\ pc = "call"
    /\ pc' = "rank_selection"
    /\ ret' \in rank_selection(args.population, args.fitnesses)
    /\ UNCHANGED <<instance, args, ga>>

\* deterministic_sel_wrapper
CallDeterministic ==
    /\ pc = "call"
    /\ pc' = "deterministic_selection"
    /\ ret' \in deterministic_selection(args.population, args.fitnesses)
    /\ UNCHANGED <<instance, args, ga>>

\* uniform_sel_wrapper
CallUniform ==
    /\ pc = "call"
    /\ pc' = "uniform_selection"
    /\ ret' \in uniform_selection(args.population, Len(args.population))
    /\ UNCHANGED <<instance, args, ga>>

CallRemainder ==
    /\ pc = "call"
    /\ pc' = "remainder_selection"
    /\ ret' \in remainder_selection(args.population, args.fitnesses)
    /\ UNCHANGED <<instance, args, ga>>

NextSelection ==
    \/ CallTournament
    \/ CallRoulette
    \/ CallRank
    \/ CallDeterministic
    \/ CallUniform
    \/ CallRemainder

SpecSelection == InitSelection /\ [][NextSelection]_vars

ReturnsMember ==
    /\ ret.exc = "none"
    /\ ret.type = "chromosome"
    /\ ret.val \in Range(args.population)

\* C7: every selection variant as wired, called on a non-empty population
\* with positive fitnesses, returns without raising a single chromosome that
\* is a member of the population (never None, never a list of chromosomes).
C7_SelectionReturnsMember ==
    (pc # "call" /\ \A i \in DOMAIN args.fitnesses : args.fitnesses[i] > 0)
        => ReturnsMember

\* C8: remainder_selection terminates and returns a member of the population
\* for every non-empty population with non-negative fitnesses; with a total
\* fitness of zero every member of the population is a possible result.
C8_RemainderReturnsMember ==
    /\ pc = "remainder_selection" => ReturnsMember
    /\ SumSeq(args.fitnesses) = 0 =>
          remainder_selection(args.population, args.fitnesses)
             = {Chromosome(args.population[i]) : i \in DOMAIN args.population}

\* remainder_selection returned an index appended by the draw on the
\* remainders: a member whose integer part is zero (fitnesses 2, 1, 1 give
\* E = 1.5, 0.75, 0.75)
RemainderDrawReturned ==
    /\ pc = "remainder_selection"
    /\ \E i \in DOMAIN args.fitnesses :
          /\ 0 < Len(args.population) * args.fitnesses[i]
          /\ Len(args.population) * args.fitnesses[i] < SumSeq(args.fitnesses)
          /\ \A j \in DOMAIN args.population :
                args.population[j] = args.population[i] => j = i
          /\ ret = Chromosome(args.population[i])

\* remainder_selection returned the second member of a population whose
\* fitnesses are all zero
C8_Witness ==
    /\ pc = "remainder_selection"
    /\ Len(args.population) >= 2
    /\ SumSeq(args.fitnesses) = 0
    /\ args.population[1] # args.population[2]
    /\ ret = Chromosome(args.population[2])

-----------------------------------------------------------------------------
(* src/cost.py: distances and costs.  Where a table is built from          *)
(* coordinates the nodes lie on a line: node i is at (coords[i], 0),        *)
(* integers as the instance reader parses them, so that the Euclidean       *)
(* distance math.hypot(dx, 0) is exactly |dx|.                              *)

euclidean_distance(a, b) == IF a >= b THEN a - b ELSE b - a

build_distance_matrix(coords) ==
    [p \in (DOMAIN coords) \X (DOMAIN coords) |->
        euclidean_distance(coords[p[1]], coords[p[2]])]

\* _route_cost (ga.py); solution_cost sums the same legs over every route
RECURSIVE route_cost(_, _)
route_cost(route, dist) ==
    IF Len(route) < 2 THEN 0
    ELSE dist[<<route[1], route[2]>>] + route_cost(Tail(route), dist)

RECURSIVE solution_cost(_, _)
solution_cost(solution, dist) ==
    IF solution = <<>> THEN 0
    ELSE route_cost(Head(solution), dist) + solution_cost(Tail(solution), dist)

-----------------------------------------------------------------------------
(* ga.py: 2-opt *)
\* mutant of ReverseSlice: new[i-1:j] = reversed(best[i-1:j]), a slice that
\* starts one index earlier
ReverseSlice_OneEarlier(best, i, j) ==
    [k \in 1..Len(best) |-> IF i <= k /\ k <= j THEN best[i + j - k] ELSE best[k]]

\* new = best[:]; new[i:j] = reversed(best[i:j])
ReverseSlice(best, i, j) ==
    [k \in 1..Len(best) |-> IF i + 1 <= k /\ k <= j THEN best[i + 1 + j - k] ELSE best[k]]

\* mutant of AcceptsReversal: `<=` for `<`
AcceptsReversal_OnTie(c, best_cost) == c <= best_cost

\* two_opt_route: `if c < best_cost:`
AcceptsReversal(c, best_cost) == c < best_cost

\* mutant of TwoOptPass: `best = new` on every trial, best_cost only on an
\* improvement
RECURSIVE TwoOptPass_KeepsLastTrial(_, _, _, _, _, _)
TwoOptPass_KeepsLastTrial(best, best_cost, improved, i, j, dist) ==
    IF i >= Len(best) - 2 THEN [best |-> best, best_cost |-> best_cost, improved |-> improved]
    ELSE IF j >= Len(best) - 1
         THEN TwoOptPass_KeepsLastTrial(best, best_cost, improved, i + 1, i + 2, dist)
         ELSE LET new == ReverseSlice(best, i, j)
                  c == route_cost(new, dist)
              IN  IF c < best_cost
                  THEN TwoOptPass_KeepsLastTrial(new, c, TRUE, i, j + 1, dist)
                  ELSE TwoOptPass_KeepsLastTrial(new, best_cost, improved, i, j + 1, dist)

\* one turn of `while improved`: the two nested `for` loops from (i, j) on
RECURSIVE TwoOptPass(_, _, _, _, _, _)
TwoOptPass(best, best_cost, improved, i, j, dist) ==
    IF i >= Len(best) - 2 THEN [best |-> best, best_cost |-> best_cost, improved |-> improved]
    ELSE IF j >= Len(best) - 1
         THEN TwoOptPass(best, best_cost, improved, i + 1, i + 2, dist)
         ELSE LET new == ReverseSlice(best, i, j)
                  c == route_cost(new, dist)
              IN  IF AcceptsReversal(c, best_cost)
                  THEN TwoOptPass(new, c, TRUE, i, j + 1, dist)
                  ELSE TwoOptPass(best, best_cost, improved, i, j + 1, dist)

\* mutant of TwoOptWhile: a single pass, no return to the scan after an
\* improvement
TwoOptWhile_SinglePass(best, best_cost, dist) ==
    TwoOptPass(best, best_cost, FALSE, 1, 2, dist).best

\* `while improved`
RECURSIVE TwoOptWhile(_, _, _)
TwoOptWhile(best, best_cost, dist) ==
    LET r == TwoOptPass(best, best_cost, FALSE, 1, 2, dist) IN
    IF r.improved THEN TwoOptWhile(r.best, r.best_cost, dist) ELSE r.best

two_opt_route(route, dist) ==
    IF Len(route) <= 4 THEN route
    ELSE TwoOptWhile(route, route_cost(route, dist), dist)

local_search_solution(solution, dist) ==
    [r \in DOMAIN solution |-> two_opt_route(solution[r], dist)]

-----------------------------------------------------------------------------
(* SpecTwoOpt: two_opt_route applied to a route (depot, customers, depot),  *)
(* then applied again to its own result.  The customers of the route are    *)
(* named in the order of the visit, and the distance table ranges over      *)
(* every symmetric table with a zero diagonal whose legs are short or long, *)
(* so every order of visit of every such table is covered.                  *)

MaxRouteCustomers == 4  \* a route visits 0..MaxRouteCustomers customers

\* the length of a leg between two distinct nodes: short or long
LegLengths == {1, 2}

\* the symmetric distance tables on the nodes 0..m
DistTables(m) ==
    LET legs == {p \in (0..m) \X (0..m) : p[1] < p[2]} IN
    {[p \in (0..m) \X (0..m) |->
         IF p[1] = p[2] THEN 0
         ELSE IF p[1] < p[2] THEN f[p] ELSE f[<<p[2], p[1]>>]] :
        f \in [legs -> LegLengths]}

InitTwoOpt ==
    /\ pc = "call"
    /\ \E m \in 0..MaxRouteCustomers :
          /\ instance = UnitInstance(1..m)
          /\ args \in {[route |-> <<0>> \o [i \in 1..m |-> i] \o <<0>>, dist |-> d] :
                          d \in DistTables(m)}
    /\ ret = [first |-> <<>>, second |-> <<>>]
    /\ ga = NotRunning

CallTwoOpt ==
    /\ pc = "call"
    /\ pc' = "two_opt_route"
    /\ ret' = [ret EXCEPT !.first = two_opt_route(args.route, args.dist)]
    /\ UNCHANGED <<instance, args, ga>>

CallTwoOptAgain ==
    /\ pc = "two_opt_route"
    /\ pc' = "again"
    /\ ret' = [ret EXCEPT !.second = two_opt_route(ret.first, args.dist)]
    /\ UNCHANGED <<instance, args, ga>>

NextTwoOpt == CallTwoOpt \/ CallTwoOptAgain

SpecTwoOpt == InitTwoOpt /\ [][NextTwoOpt]_vars

\* C9: for every route and every symmetric non-negative distance table, the
\* cost of two_opt_route(route, dist) is at most the cost of route.
C9_TwoOptNeverWorse ==
    pc \in {"two_opt_route", "again"} =>
        route_cost(ret.first, args.dist) <= route_cost(args.route, args.dist)

\* two_opt_route returned a strictly cheaper route
C9_Witness ==
    /\ pc = "two_opt_route"
    /\ route_cost(ret.first, args.dist) < route_cost(args.route, args.dist)

\* C10: two_opt_route is idempotent: applied to its own result it returns
\* the same sequence of nodes, with the same cost.
C10_TwoOptIdempotent ==
    pc = "again" =>
        /\ ret.second = ret.first
        /\ route_cost(ret.second, args.dist) = route_cost(ret.first, args.dist)

\* the second application was given a route that the first one had reached
\* in more than one improving pass of `while improved`
C10_Witness ==
    /\ pc = "again"
    /\ Len(args.route) > 4
    /\ ret.first # args.route
    /\ ret.first # TwoOptPass(args.route, route_cost(args.route, args.dist),
                              FALSE, 1, 2, args.dist).best
    /\ ret.second = ret.first

-----------------------------------------------------------------------------
(* ga.py: the inter-route moves, as the sets of solutions their random      *)
(* draws can produce                                                        *)

\* route.remove(cust): without the first occurrence of cust
RemoveFirst(route, cust) ==
    LET k == Index(route, cust) + 1 IN
    SubSeq(route, 1, k - 1) \o SubSeq(route, k + 1, Len(route))

\* route.insert(pos, cust)
InsertAt(route, pos, cust) ==
    SubSeq(route, 1, pos) \o <<cust>> \o SubSeq(route, pos + 1, Len(route))

Closed(interior, inst) == <<inst.depot>> \o interior \o <<inst.depot>>

\* a draw a call does not come to is NoneVal
NoDraws == [r |-> <<>>, c1 |-> NoneVal, c2 |-> NoneVal, pos |-> NoneVal]

\* random.sample(range(len(sol)), 2)
RoutePairs(solution) == {r \in (DOMAIN solution) \X (DOMAIN solution) : r[1] # r[2]}

\* the draws of relocate_move: random.sample(range(len(sol)), 2) as r,
\* random.choice(route1) as c1 and random.randint(0, len(route2)) as pos
RelocateDraws(solution) ==
    IF Len(solution) < 2 THEN {NoDraws}
    ELSE UNION {
        LET route1 == Interior(solution[r[1]])
            route2 == Interior(solution[r[2]])
        IN  IF route1 = <<>> THEN {[NoDraws EXCEPT !.r = r]}
            ELSE [r : {r}, c1 : Range(route1), c2 : {NoneVal}, pos : 0..Len(route2)] :
        r \in RoutePairs(solution)}

\* the draws of exchange_move: random.sample(range(len(sol)), 2) as r,
\* random.choice(route1) as c1 and random.choice(route2) as c2
ExchangeDraws(solution) ==
    IF Len(solution) < 2 THEN {NoDraws}
    ELSE UNION {
        LET route1 == Interior(solution[r[1]])
            route2 == Interior(solution[r[2]])
        IN  IF route1 = <<>> \/ route2 = <<>> THEN {[NoDraws EXCEPT !.r = r]}
            ELSE [r : {r}, c1 : Range(route1), c2 : Range(route2), pos : {NoneVal}] :
        r \in RoutePairs(solution)}

\* mutant of RelocateDraw: the customer is moved whatever the load of the
\* destination route
RelocateDraw_NoCapacityCheck(solution, inst, draw) ==
    IF Len(solution) < 2 THEN solution
    ELSE LET route1 == Interior(solution[draw.r[1]])
             route2 == Interior(solution[draw.r[2]])
         IN  IF route1 = <<>> THEN solution
             ELSE [solution EXCEPT
                     ![draw.r[1]] = Closed(RemoveFirst(route1, draw.c1), inst),
                     ![draw.r[2]] = Closed(InsertAt(route2, draw.pos, draw.c1), inst)]

\* relocate_move on the draws r, c1 (cust) and pos
RelocateDraw(solution, inst, draw) ==
    IF Len(solution) < 2 THEN solution
    ELSE LET route1 == Interior(solution[draw.r[1]])
             route2 == Interior(solution[draw.r[2]])
         IN  IF route1 = <<>> THEN solution
             ELSE LET demand == inst.demands[draw.c1]
                      load2 == SumDemands(route2, inst.demands)
                  IN  IF load2 + demand > inst.capacity THEN solution
                      ELSE [solution EXCEPT
                              ![draw.r[1]] = Closed(RemoveFirst(route1, draw.c1), inst),
                              ![draw.r[2]] = Closed(InsertAt(route2, draw.pos, draw.c1), inst)]

relocate_move(solution, inst) ==
    {RelocateDraw(solution, inst, draw) : draw \in RelocateDraws(solution)}

\* mutant of ExchangeDraw: only the load of the first route is compared with
\* the capacity
ExchangeDraw_FirstLoadOnly(solution, inst, draw) ==
    IF Len(solution) < 2 THEN solution
    ELSE LET route1 == Interior(solution[draw.r[1]])
             route2 == Interior(solution[draw.r[2]])
         IN  IF route1 = <<>> \/ route2 = <<>> THEN solution
             ELSE LET c1 == draw.c1
                      c2 == draw.c2
                      d1 == inst.demands[c1]
                      d2 == inst.demands[c2]
                      load1 == SumDemands(route1, inst.demands)
                  IN  IF load1 - d1 + d2 > inst.capacity THEN solution
                      ELSE [solution EXCEPT
                              ![draw.r[1]] = Closed([route1 EXCEPT ![Index(route1, c1) + 1] = c2], inst),
                              ![draw.r[2]] = Closed([route2 EXCEPT ![Index(route2, c2) + 1] = c1], inst)]

\* exchange_move on the draws r, c1 and c2
ExchangeDraw(solution, inst, draw) ==
    IF Len(solution) < 2 THEN solution
    ELSE LET route1 == Interior(solution[draw.r[1]])
             route2 == Interior(solution[draw.r[2]])
         IN  IF route1 = <<>> \/ route2 = <<>> THEN solution
             ELSE LET c1 == draw.c1
                      c2 == draw.c2
                      d1 == inst.demands[c1]
                      d2 == inst.demands[c2]
                      load1 == SumDemands(route1, inst.demands)
                      load2 == SumDemands(route2, inst.demands)
                  IN  IF load1 - d1 + d2 > inst.capacity THEN solution
                      ELSE IF load2 - d2 + d1 > inst.capacity THEN solution
                      ELSE [solution EXCEPT
                              ![draw.r[1]] = Closed([route1 EXCEPT ![Index(route1, c1) + 1] = c2], inst),
                              ![draw.r[2]] = Closed([route2 EXCEPT ![Index(route2, c2) + 1] = c1], inst)]

exchange_move(solution, inst) ==
    {ExchangeDraw(solution, inst, draw) : draw \in ExchangeDraws(solution)}

-----------------------------------------------------------------------------
(* ga.py: genetic_algorithm *)

\* the values Python code can hand around where a chromosome is expected
PyNone == [kind |-> "None", val |-> <<>>]
PyList(l) == [kind |-> "list", val |-> l]
\* (a list of lists is kept by its length: its genes are lists, not customers)
PyListOfLists(l) == [kind |-> "list of lists", val |-> [i \in DOMAIN l |-> 0]]

\* mutant of is_valid_chromosome: the comparison of the sets left out
is_valid_chromosome_LengthOnly(chrom, customers) ==
    IF chrom.kind = "None" THEN "False"
    ELSE IF Len(chrom.val) # Cardinality(customers) THEN "False"
    ELSE "True"

\* is_valid_chromosome: "True", "False", or "TypeError" when set(chrom) meets
\* an unhashable gene (a list)
is_valid_chromosome(chrom, customers) ==
    IF chrom.kind = "None" THEN "False"
    ELSE IF Len(chrom.val) # Cardinality(customers) THEN "False"
    ELSE IF chrom.kind = "list of lists" THEN "TypeError"
    ELSE IF Range(chrom.val) = customers THEN "True" ELSE "False"

\* repair_chromosome: random.sample(customers, len(customers))
repair_chromosome(customers) == Perms(customers)

\* elite_size = max(1, pop_size // 20)
EliteDivisor == 20
elite_size(pop_size) ==
    IF pop_size \div EliteDivisor > 1 THEN pop_size \div EliteDivisor ELSE 1

\* best_cost = float("inf")
Infinity == 1000000

\* cost = 1e12 (the penalty of `except Exception`): above every cost of a
\* solution within the bounds, below float("inf")
Penalty == 999999

\* the evaluation of chrom raises inside the try: KeyError in decode when a
\* customer has no entry in instance["demands"], KeyError in _route_cost or
\* solution_cost when a node of a route has no entry in dist
EvaluationRaises(chrom, inst, dist) ==
    \/ \E i \in DOMAIN chrom : chrom[i] \notin DOMAIN inst.demands
    \/ \E n \in Range(chrom) \cup {inst.depot} : <<n, n>> \notin DOMAIN dist

\* the solutions one evaluation of chrom can score: decode, 2-opt on every
\* route, relocate_move with probability 0.7, exchange_move with probability
\* 0.4
EvaluationSolutions(chrom, inst, dist) ==
    LET sol == local_search_solution(decode(chrom, inst), dist)
        relocated == {sol} \cup relocate_move(sol, inst)
    IN  relocated \cup UNION {exchange_move(x, inst) : x \in relocated}

\* the costs one evaluation of chrom can produce: solution_cost of the
\* solution scored, or the penalty
EvaluationCosts(chrom, inst, dist) ==
    IF EvaluationRaises(chrom, inst, dist) THEN {Penalty}
    ELSE {solution_cost(x, dist) : x \in EvaluationSolutions(chrom, inst, dist)}

\* sorted(zip(population, costs), key=lambda x: x[1]): the index of the
\* individual at 1-based position r of the stable ascending sort
RankedIndex(costs, r) ==
    CHOOSE i \in DOMAIN costs :
        Cardinality({j \in DOMAIN costs :
                        costs[j] < costs[i] \/ (costs[j] = costs[i] /\ j < i)}) = r - 1

\* mutant of ElitesOf: ranked = zip(population, costs), without the sort
ElitesOf_Unsorted(population, costs, n) ==
    [r \in 1..(IF n < Len(population) THEN n ELSE Len(population)) |-> population[r]]

\* elites = [c[:] for c, _ in ranked[:elite_size]]
ElitesOf(population, costs, n) ==
    [r \in 1..(IF n < Len(population) THEN n ELSE Len(population)) |->
        population[RankedIndex(costs, r)]]

MinCost(costs) == CHOOSE c \in Range(costs) : \A d \in Range(costs) : c <= d

\* an exception raised by a configured crossover or mutation
RaisedValue == [kind |-> "raise", val |-> <<>>]

\* the ValueError of random.sample(..., k) in tournament_selection on a
\* population of fewer than k individuals
SampleError == [kind |-> "ValueError", val |-> <<>>]

\* what the configured selection can hand back: a member of the population
\* (the contract), the population in some order (uniform_sel_wrapper), or the
\* ValueError of tournament_selection
SelectionResults(population) ==
    {PyList(population[i]) : i \in DOMAIN population}
        \cup {PyListOfLists(population)}
        \cup (IF Len(population) < TournamentK THEN {SampleError} ELSE {})

\* the customers in increasing order
RECURSIVE Sorted(_)
Sorted(S) ==
    IF S = {} THEN <<>>
    ELSE LET m == CHOOSE x \in S : \A y \in S : x <= y IN <<m>> \o Sorted(S \ {m})

\* what the configured crossover or mutation can hand back: any permutation
\* of the customers, None, a list of the wrong length (too short, too long),
\* one with a duplicate and so a customer missing, one holding the depot, or
\* an exception
OperatorResults(inst) ==
    LET c == Sorted(inst.customers) IN
    {PyList(x) : x \in Perms(inst.customers)}
        \cup {PyNone, PyList(<<>>), RaisedValue,
              PyList(Append(c, c[1])),
              PyList([c EXCEPT ![1] = c[Len(c)]]),
              PyList([c EXCEPT ![1] = inst.depot])}

\* the child of one turn of the reproduction loop before the validity check:
\* p1 = selection(...)[:]; p2 = selection(...)[:];
\* child = crossover(p1, p2) if random.random() < px else p1[:];
\* if random.random() < pm: child = mutation(child)
Children(population, inst) ==
    LET ops == OperatorResults(inst)
        sel == SelectionResults(population)
        crossed == UNION {IF p1 = SampleError \/ p2 = SampleError THEN {SampleError}
                          ELSE {p1} \cup ops : p1 \in sel, p2 \in sel}
    IN  UNION {IF child \in {SampleError, RaisedValue} THEN {child} ELSE {child} \cup ops :
                  child \in crossed}

-----------------------------------------------------------------------------
(* SpecGA: genetic_algorithm on the instance GaInstance, for every pop_size  *)
(* and generations within the bounds, every initial population and every    *)
(* behaviour of the configured operators.                                   *)

\* three customers of demand 1 on a line (customer i at (i, 0), the depot at
\* (0, 0)) and vehicles of capacity 2: decode splits every chromosome into a
\* route of two customers and a route of one, so that relocate_move and
\* exchange_move both have moves to accept and moves to reject
GaInstance ==
    [depot |-> 0, customers |-> 1..3, demands |-> <<1, 1, 1>> @@ (0 :> 0),
     capacity |-> 2, coords |-> <<1, 2, 3>> @@ (0 :> 0)]

MaxPopSize == 2         \* pop_size ranges over 1..MaxPopSize
MaxGenerations == 2     \* generations ranges over 1..MaxGenerations

InitGA ==
    /\ pc = "evaluate"
    /\ instance = GaInstance
    /\ args \in [pop_size : 1..MaxPopSize, generations : 1..MaxGenerations]
    /\ ret = [exc |-> "none"]
    /\ \E population \in [1..args.pop_size -> Perms(instance.customers)] :
          ga = [gen |-> 0, population |-> population, costs |-> <<>>,
                new_population |-> <<>>, best_cost |-> Infinity, best_chrom |-> <<>>,
                history |-> <<>>, decoded |-> <<>>, repaired |-> FALSE]

\* mutant of Improves: `<=` for `<`
Improves_OrEqual(cost, best_cost) == cost <= best_cost

\* `if cost < best_cost:` before best_cost = cost; best_chrom = chrom[:]
Improves(cost, best_cost) == cost < best_cost

\* mutant of ReproductionContinues: `<=` for `<`
ReproductionContinues_OneMore(new_population, pop_size) ==
    Len(new_population) <= pop_size

\* `while len(new_population) < pop_size`
ReproductionContinues(new_population, pop_size) ==
    Len(new_population) < pop_size

\* the evaluation of the next chromosome of the population
\* (one turn of `for chrom in population`)
GaEvaluate ==
    /\ pc = "evaluate"
    /\ Len(ga.costs) < Len(ga.population)
    /\ LET chrom0 == ga.population[Len(ga.costs) + 1]
           dist == build_distance_matrix(instance.coords)
       IN  \E chrom \in (IF is_valid_chromosome(PyList(chrom0), instance.customers) = "True"
                         THEN {chrom0} ELSE repair_chromosome(instance.customers)) :
             \E cost \in EvaluationCosts(chrom, instance, dist) :
                ga' = [ga EXCEPT
                         !.decoded = chrom,
                         !.costs = Append(@, cost),
                         !.best_cost = IF Improves(cost, ga.best_cost) THEN cost ELSE @,
                         !.best_chrom = IF Improves(cost, ga.best_cost) THEN chrom ELSE @]
    /\ UNCHANGED <<pc, instance, args, ret>>

\* elitism, once every chromosome is evaluated
GaElitism ==
    /\ pc = "evaluate"
    /\ Len(ga.costs) = Len(ga.population)
    /\ pc' = "reproduce"
    /\ ga' = [ga EXCEPT !.new_population =
                 ElitesOf(ga.population, ga.costs, elite_size(args.pop_size))]
    /\ UNCHANGED <<instance, args, ret>>

\* one turn of `while len(new_population) < pop_size`
GaReproduce ==
    /\ pc = "reproduce"
    /\ ReproductionContinues(ga.new_population, args.pop_size)
    /\ \E child \in Children(ga.population, instance) :
         LET valid == IF child \in {SampleError, RaisedValue} THEN child.kind
                      ELSE is_valid_chromosome(child, instance.customers)
         IN  \/ /\ valid \in {"raise", "ValueError", "TypeError"}
                /\ pc' = "raised"
                /\ ret' = [exc |-> valid]
                /\ ga' = ga
             \/ /\ valid = "True"
                /\ ga' = [ga EXCEPT !.new_population = Append(@, child.val),
                                    !.repaired = FALSE]
                /\ UNCHANGED <<pc, ret>>
             \/ /\ valid = "False"
                /\ \E fresh \in repair_chromosome(instance.customers) :
                      ga' = [ga EXCEPT !.new_population = Append(@, fresh),
                                       !.repaired = TRUE]
                /\ UNCHANGED <<pc, ret>>
    /\ UNCHANGED <<instance, args>>

\* population = new_population; history.append(min(costs)); the next turn of
\* `for gen in range(generations)`, or the return
GaReplace ==
    /\ pc = "reproduce"
    /\ ~ReproductionContinues(ga.new_population, args.pop_size)
    /\ ga' = [ga EXCEPT !.population = ga.new_population,
                        !.history = Append(@, MinCost(ga.costs)),
                        !.costs = <<>>,
                        !.new_population = <<>>,
                        !.repaired = FALSE,
                        !.gen = @ + 1]
    /\ pc' = IF ga.gen + 1 < args.generations THEN "evaluate" ELSE "done"
    /\ UNCHANGED <<instance, args, ret>>

NextGA == GaEvaluate \/ GaElitism \/ GaReproduce \/ GaReplace

SpecGA == InitGA /\ [][NextGA]_vars

\* C3: at the start of every generation and in the final population every
\* chromosome is a permutation of the customers, whatever the configured
\* crossover and mutation return; an invalid child is replaced by a fresh
\* permutation before it enters the new population, and no invalid
\* chromosome is decoded or scored.
C3_PopulationOfPermutations ==
    /\ \A i \in DOMAIN ga.population :
          IsPermutationOf(ga.population[i], instance.customers)
    /\ \A i \in DOMAIN ga.new_population :
          IsPermutationOf(ga.new_population[i], instance.customers)
    /\ Len(ga.costs) > 0 => IsPermutationOf(ga.decoded, instance.customers)

\* in a later generation, whose population was evaluated, the new population
\* is complete and the last child that entered it was a fresh permutation put
\* in place of an invalid child
C3_Witness ==
    /\ pc = "reproduce"
    /\ ga.gen >= 1
    /\ Len(ga.costs) = Len(ga.population)
    /\ Len(ga.new_population) = args.pop_size
    /\ ga.repaired

\* the cost of the solution the callers rebuild from a chromosome:
\* decode, local_search_solution, solution_cost
RedecodedCost(chrom, inst, dist) ==
    solution_cost(local_search_solution(decode(chrom, inst), dist), dist)

\* C11: the history returned by genetic_algorithm is non-increasing:
\* history[g+1] <= history[g] for every pair of consecutive generations.
C11_HistoryNonIncreasing ==
    \A g \in 1..(Len(ga.history) - 1) : ga.history[g + 1] <= ga.history[g]

\* C12: the best_cost returned by genetic_algorithm is the cost of the
\* solution obtained by decoding the returned best chromosome and applying
\* local_search_solution to it.
C12_BestCostIsCostOfBestChrom ==
    pc = "done" =>
        RedecodedCost(ga.best_chrom, instance, build_distance_matrix(instance.coords))
            = ga.best_cost

\* C14: genetic_algorithm, run with the operators of the repository, always
\* returns, after exactly `generations` generations: no exception of a
\* selection, crossover or mutation of the repository ends the run, the
\* returned history has `generations` entries, and the reproduction loop
\* stops once the new population holds pop_size chromosomes.
C14_RunsEveryGeneration ==
    /\ ret.exc \notin {"ValueError", "TypeError"}
    /\ pc = "done" => ga.gen = args.generations /\ Len(ga.history) = args.generations
    /\ Len(ga.new_population) <= args.pop_size

\* C15: the population holds exactly pop_size chromosomes at the start of
\* every generation and after the last one, for every pop_size >= 1.
C15_PopulationSizeFixed ==
    pc \in {"evaluate", "done"} => Len(ga.population) = args.pop_size

\* the run returned, each generation having put one elite and one child in
\* the new population
C15_Witness ==
    /\ pc = "done"
    /\ ga.gen = args.generations
    /\ ga.gen >= 2
    /\ args.pop_size > elite_size(args.pop_size)
    /\ Len(ga.population) = args.pop_size

-----------------------------------------------------------------------------
(* SpecGAInvalid: genetic_algorithm handed an invalid instance: GaInstance  *)
(* with the demand of a customer missing, with the coordinates of a         *)
(* customer missing (so that dist has no entry for it), or with a capacity  *)
(* that is not positive.                                                    *)

\* f without its entry for k
Without(f, k) == [n \in (DOMAIN f) \ {k} |-> f[n]]

InvalidInstances ==
    {[GaInstance EXCEPT !.demands = Without(@, 3)],
     [GaInstance EXCEPT !.coords = Without(@, 3)],
     [GaInstance EXCEPT !.capacity = 0],
     [GaInstance EXCEPT !.capacity = -1]}

InitGAInvalid ==
    /\ pc = "evaluate"
    /\ instance \in InvalidInstances
    /\ args \in [pop_size : 1..MaxPopSize, generations : 1..MaxGenerations]
    /\ ret = [exc |-> "none"]
    /\ \E population \in [1..args.pop_size -> Perms(instance.customers)] :
          ga = [gen |-> 0, population |-> population, costs |-> <<>>,
                new_population |-> <<>>, best_cost |-> Infinity, best_chrom |-> <<>>,
                history |-> <<>>, decoded |-> <<>>, repaired |-> FALSE]

SpecGAInvalid == InitGAInvalid /\ [][NextGA]_vars

\* every customer has a demand and coordinates, and the capacity is positive
IsValidInstance(inst) ==
    /\ \A c \in inst.customers : c \in DOMAIN inst.demands /\ c \in DOMAIN inst.coords
    /\ inst.capacity > 0

\* C16: on an invalid instance genetic_algorithm refuses to start: it
\* evaluates no chromosome, and it does not complete the run and return a
\* best chromosome, a best cost and a history.
C16_RefusesInvalidInstance ==
    ~IsValidInstance(instance) =>
        /\ ga.costs = <<>> /\ ga.history = <<>>
        /\ pc # "done"

\* the run on an invalid instance returned a best chromosome and a full history
C16_RunCompletes ==
    /\ ~IsValidInstance(instance)
    /\ pc = "done"
    /\ Len(ga.history) = args.generations
    /\ ga.best_chrom # <<>>

-----------------------------------------------------------------------------
(* run_all_instance_opt.py: the parallel sweep.  The main process submits   *)
(* one job per (instance file, operator combination, run index) to a pool   *)
(* of worker processes; a worker runs run_single_experiment on one job at a *)
(* time; the main process appends the results in the order of completion.   *)
(* The state of Python's `random` module is global to a process: a worker   *)
(* keeps it from one job to the next.  It is modelled by the seed it was    *)
(* last given and the number of draws taken since, and a draw by that pair. *)

SEED_START == 100
RUNS_PER_COMBINATION == 3

NumWorkers == 2         \* NUM_WORKERS, the number of cores but one

Workers == 1..NumWorkers

\* get_instance_files and get_experiments: one instance file, two operator
\* combinations, which consume different numbers of draws
InstanceFiles == {"A-n32-k5.vrp"}
Experiments == {"Rank+OX+Swap", "Rank+PMX+Swap"}

\* jobs.append((instance_file, exp_tuple, run_idx))
Jobs == [file : InstanceFiles, exp : Experiments, run_idx : 0..(RUNS_PER_COMBINATION - 1)]

\* the state of `random` in a fresh worker process: seeded by the system
OsSeeds == {1, 2}

\* mutant of SeedRandom: the job runs on the state the worker was left in
SeedRandom_Skipped(rng, seed) == rng

\* random.seed(seed)
SeedRandom(rng, seed) == [seed |-> seed, pos |-> 0]

\* one draw: the value drawn and the state after it
DrawRandom(rng) == [value |-> <<rng.seed, rng.pos>>, rng |-> [rng EXCEPT !.pos = @ + 1]]

\* the number of draws genetic_algorithm takes in a job
DrawsOf(job) == IF job.exp = "Rank+OX+Swap" THEN 1 ELSE 2

\* the dictionary run_single_experiment returns, but for its 'time': what
\* genetic_algorithm computed from the instance read, the operators and the
\* draws it took
ExperimentResult(job, inst, draws) ==
    [instance_name |-> inst, method |-> job.exp, draws |-> draws]

\* the result of the job run alone, in a process of its own
ResultAlone(job) ==
    ExperimentResult(job, job.file,
                     [k \in 1..DrawsOf(job) |-> <<SEED_START + job.run_idx, k - 1>>])

\* pc[w]: "idle" or "genetic_algorithm"; instance[w]: the instance the worker
\* read for its job; ga[w]: the job, the state of `random` and the draws taken
\* in the worker; args: the jobs not yet taken; ret: the results returned by
\* the workers and not yet seen by the main process, and all_results
InitSweep ==
    /\ pc = [w \in Workers |-> "idle"]
    /\ instance = [w \in Workers |-> ""]
    /\ args = [pending |-> Jobs]
    /\ ret = [finished |-> {}, all_results |-> <<>>]
    /\ ga \in [Workers -> [job : {NoneVal}, rng : [seed : OsSeeds, pos : {0}], draws : {<<>>}]]

\* a worker takes a job: read_cvrp_instance, build_distance_matrix,
\* random.seed(SEED_START + run_idx), and the call of genetic_algorithm
WorkerStartJob(w) ==
    /\ pc[w] = "idle"
    /\ \E job \in args.pending :
          /\ args' = [args EXCEPT !.pending = @ \ {job}]
          /\ instance' = [instance EXCEPT ![w] = job.file]
          /\ ga' = [ga EXCEPT ![w] = [job |-> job,
                                      rng |-> SeedRandom(ga[w].rng, SEED_START + job.run_idx),
                                      draws |-> <<>>]]
    /\ pc' = [pc EXCEPT ![w] = "genetic_algorithm"]
    /\ UNCHANGED ret

\* genetic_algorithm in the worker takes its next draw
WorkerDraw(w) ==
    /\ pc[w] = "genetic_algorithm"
    /\ Len(ga[w].draws) < DrawsOf(ga[w].job)
    /\ LET d == DrawRandom(ga[w].rng) IN
          ga' = [ga EXCEPT ![w].rng = d.rng, ![w].draws = Append(@, d.value)]
    /\ UNCHANGED <<pc, instance, args, ret>>

\* genetic_algorithm returns and run_single_experiment returns its result
WorkerReturn(w) ==
    /\ pc[w] = "genetic_algorithm"
    /\ Len(ga[w].draws) = DrawsOf(ga[w].job)
    /\ ret' = [ret EXCEPT !.finished =
                  @ \cup {[job |-> ga[w].job,
                           result |-> ExperimentResult(ga[w].job, instance[w], ga[w].draws)]}]
    /\ pc' = [pc EXCEPT ![w] = "idle"]
    /\ ga' = [ga EXCEPT ![w].job = NoneVal, ![w].draws = <<>>]
    /\ UNCHANGED <<instance, args>>

\* `for future in as_completed(futures)`: all_results.append(future.result())
MainCollect ==
    /\ \E f \in ret.finished :
          ret' = [finished |-> ret.finished \ {f},
                  all_results |-> Append(ret.all_results, f)]
    /\ UNCHANGED <<pc, instance, args, ga>>

NextSweep ==
    \/ \E w \in Workers : WorkerStartJob(w)
    \/ \E w \in Workers : WorkerDraw(w)
    \/ \E w \in Workers : WorkerReturn(w)
    \/ MainCollect

SpecSweep == InitSweep /\ [][NextSweep]_vars

-----------------------------------------------------------------------------
(* SpecFeasible: is_solution_feasible applied to any list of routes over    *)
(* the nodes of an instance and one node the instance does not know, as     *)
(* test_basic.py applies it to the routes read from a solution file.        *)

MaxSolutionRoutes == 2  \* a solution holds 0..MaxSolutionRoutes routes
MaxRouteLen == 4        \* a route holds 0..MaxRouteLen nodes

\* the instances of two customers, each with a positive demand
TwoCustomerInstances ==
    {i \in Instances : i.customers = 1..2 /\ \A c \in i.customers : i.demands[c] >= 1}

\* a node that has no entry in demands
UnknownNode(inst) == Cardinality(inst.customers) + 1

\* the sequences over S of length 0..n
SeqsUpTo(S, n) == UNION {[1..k -> S] : k \in 0..n}

InitFeasible ==
    /\ pc = "call"
    /\ instance \in TwoCustomerInstances
    /\ args \in {[solution |-> sol] :
                    sol \in SeqsUpTo(SeqsUpTo((DOMAIN instance.demands)
                                                 \cup {UnknownNode(instance)}, MaxRouteLen),
                                     MaxSolutionRoutes)}
    /\ ret = [feasible |-> ""]
    /\ ga = NotRunning

CallIsSolutionFeasible ==
    /\ pc = "call"
    /\ pc' = "done"
    /\ ret' = [feasible |-> is_solution_feasible(args.solution, instance.demands,
                                                  instance.capacity, instance.depot)]
    /\ UNCHANGED <<instance, args, ga>>

NextFeasible == CallIsSolutionFeasible

SpecFeasible == InitFeasible /\ [][NextFeasible]_vars

\* the four conditions of feasibility: every route starts and ends with the
\* depot; no node is in the interiors more than once; the interior nodes are
\* the keys of demands but the depot; every route's interior demand is
\* within the capacity
IsFeasible(solution, demands, capacity, depot) ==
    /\ \A r \in DOMAIN solution :
          /\ solution[r] # <<>>
          /\ solution[r][1] = depot
          /\ solution[r][Len(solution[r])] = depot
    /\ \A i, j \in DOMAIN Interiors(solution) :
          Interiors(solution)[i] = Interiors(solution)[j] => i = j
    /\ Range(Interiors(solution)) = (DOMAIN demands) \ {depot}
    /\ \A r \in DOMAIN solution : SumDemands(Interior(solution[r]), demands) <= capacity

\* C19: is_solution_feasible returns true if and only if the four conditions
\* hold, and false, not an exception, otherwise.
C19_FeasibleIffConditions ==
    pc = "done" =>
        /\ ret.feasible \in {"True", "False"}
        /\ ret.feasible = "True" <=>
              IsFeasible(args.solution, instance.demands, instance.capacity, instance.depot)

\* where is_solution_feasible returns, it returns true exactly on the
\* solutions that meet the four conditions
FeasibleIffConditionsWhereReturns ==
    (pc = "done" /\ ret.feasible \in {"True", "False"}) =>
        (ret.feasible = "True" <=>
            IsFeasible(args.solution, instance.demands, instance.capacity, instance.depot))

-----------------------------------------------------------------------------
(* SpecMoves: the inter-route moves of one evaluation: relocate_move, or    *)
(* not, then exchange_move, or not, from any feasible solution of an        *)
(* instance, for every outcome of their random choices.  The customers are  *)
(* numbered by increasing demand, every order of visit being covered by the *)
(* solutions.                                                               *)

MaxMoveRoutes == 2      \* a solution holds 0..MaxMoveRoutes routes

\* the instances whose customers are numbered by increasing demand
SortedInstances ==
    {i \in Instances : \A c, d \in i.customers : c <= d => i.demands[c] <= i.demands[d]}

\* the ways to cut the sequence s into k consecutive pieces, empty ones too
RECURSIVE Cuts(_, _)
Cuts(s, k) ==
    IF k = 0 THEN (IF s = <<>> THEN {<<>>} ELSE {})
    ELSE UNION {{<<SubSeq(s, 1, n)>> \o rest : rest \in Cuts(SubSeq(s, n + 1, Len(s)), k - 1)} :
                   n \in 0..Len(s)}

\* the feasible solutions of an instance: the customers in some order, cut
\* into routes within the capacity
FeasibleSolutions(inst) ==
    {sol \in UNION {{[r \in DOMAIN cut |-> Closed(cut[r], inst)] : cut \in Cuts(c, k)} :
                       c \in Perms(inst.customers), k \in 0..MaxMoveRoutes} :
        is_solution_feasible(sol, inst.demands, inst.capacity, inst.depot) = "True"}

\* args.solution: the solution given to the last move; args.draw: the draws
\* of that move; ret.solution: the solution it returned; ret.relocated:
\* relocate_move changed the solution
InitMoves ==
    /\ pc = "local_search_solution"
    /\ instance \in SortedInstances
    /\ args \in {[solution |-> sol, draw |-> <<>>] : sol \in FeasibleSolutions(instance)}
    /\ ret = [solution |-> args.solution, relocated |-> FALSE]
    /\ ga = NotRunning

\* if random.random() < 0.7: sol = relocate_move(sol, instance)
CallRelocateMove ==
    /\ pc = "local_search_solution"
    /\ pc' = "relocate_move"
    /\ \E draw \in RelocateDraws(ret.solution) :
          LET sol == RelocateDraw(ret.solution, instance, draw) IN
          /\ args' = [solution |-> ret.solution, draw |-> draw]
          /\ ret' = [solution |-> sol, relocated |-> sol # ret.solution]
    /\ UNCHANGED <<instance, ga>>

\* if random.random() < 0.4: sol = exchange_move(sol, instance)
CallExchangeMove ==
    /\ pc \in {"local_search_solution", "relocate_move"}
    /\ pc' = "exchange_move"
    /\ \E draw \in ExchangeDraws(ret.solution) :
          /\ args' = [solution |-> ret.solution, draw |-> draw]
          /\ ret' = [ret EXCEPT !.solution = ExchangeDraw(ret.solution, instance, draw)]
    /\ UNCHANGED <<instance, ga>>

NextMoves == CallRelocateMove \/ CallExchangeMove

SpecMoves == InitMoves /\ [][NextMoves]_vars

\* C20: relocate_move and exchange_move preserve feasibility: from a
\* feasible solution, whatever routes, customers and position are drawn, the
\* solution returned is feasible (every route starts and ends at the depot,
\* every customer is served exactly once, every route load is within the
\* capacity) and has as many routes as the solution given.
C20_MovesPreserveFeasibility ==
    pc \in {"relocate_move", "exchange_move"} =>
        /\ IsFeasible(ret.solution, instance.demands, instance.capacity, instance.depot)
        /\ Len(ret.solution) = Len(args.solution)

\* a relocation changed the solution, then an exchange changed it again
C20_Witness ==
    /\ pc = "exchange_move"
    /\ ret.relocated
    /\ ret.solution # args.solution

\* the loads of the two routes drawn, and the demands of the customers drawn
DrawnLoad(k) == SumDemands(Interior(args.solution[args.draw.r[k]]), instance.demands)
DrawnDemand(c) == instance.demands[c]

\* the last move drew two routes and its customers
RelocateDrewCustomer == Len(args.solution) >= 2 /\ args.draw.c1 # NoneVal
ExchangeDrewCustomers ==
    Len(args.solution) >= 2 /\ args.draw.c1 # NoneVal /\ args.draw.c2 # NoneVal

\* C21: an infeasible inter-route move is rejected without error and without
\* retry: relocate_move returns the solution it was given when the load of
\* the destination route plus the demand of the customer drawn exceeds the
\* capacity, exchange_move when either of the two loads after the swap would
\* exceed it, and both when the solution has fewer than two routes.
C21_InfeasibleMoveRejected ==
    /\ pc \in {"relocate_move", "exchange_move"} =>
          (Len(args.solution) < 2 => ret.solution = args.solution)
    /\ (pc = "relocate_move" /\ RelocateDrewCustomer
          /\ DrawnLoad(2) + DrawnDemand(args.draw.c1) > instance.capacity)
          => ret.solution = args.solution
    /\ (pc = "exchange_move" /\ ExchangeDrewCustomers
          /\ \/ DrawnLoad(1) - DrawnDemand(args.draw.c1) + DrawnDemand(args.draw.c2)
                   > instance.capacity
             \/ DrawnLoad(2) - DrawnDemand(args.draw.c2) + DrawnDemand(args.draw.c1)
                   > instance.capacity)
          => ret.solution = args.solution

\* exchange_move returned the solution it was given because the second
\* route, not the first, would have exceeded the capacity
C21_Witness ==
    /\ pc = "exchange_move"
    /\ ExchangeDrewCustomers
    /\ DrawnLoad(1) - DrawnDemand(args.draw.c1) + DrawnDemand(args.draw.c2)
          <= instance.capacity
    /\ DrawnLoad(2) - DrawnDemand(args.draw.c2) + DrawnDemand(args.draw.c1)
          > instance.capacity
    /\ ret.solution = args.solution

\* the table of the distances between the nodes of an instance, node n at
\* (n, 0)
LineDist(inst) == build_distance_matrix([n \in DOMAIN inst.demands |-> n])

\* C22: the inter-route moves improve the solution they are given: the
\* solution returned by relocate_move or exchange_move costs no more than
\* the solution given.
C22_MovesNeverCostMore ==
    pc \in {"relocate_move", "exchange_move"} =>
        solution_cost(ret.solution, LineDist(instance))
            <= solution_cost(args.solution, LineDist(instance))

\* ---------------------------------------------------------------------
\* two_opt_route: which reversals are tried (specification SpecTwoOpt)
\* ---------------------------------------------------------------------

\* the route with the nodes at positions first..last in the opposite order
SegmentReversed(route, first, last) ==
    [p \in DOMAIN route |->
        IF first <= p /\ p <= last THEN route[first + last - p] ELSE route[p]]

\* the positions of the interior customers of a route
InteriorPositions(route) == 2..(Len(route) - 1)

\* C23: when two_opt_route returns, no reversal of a contiguous segment of
\* interior customers (any interior positions first <= last, the last
\* customer before the closing depot included) strictly lowers the cost of
\* the returned route.
C23_TwoOptLocalOptimum ==
    pc = "two_opt_route" =>
        \A first \in InteriorPositions(ret.first) :
            \A last \in InteriorPositions(ret.first) :
                first <= last =>
                    route_cost(SegmentReversed(ret.first, first, last), args.dist)
                        >= route_cost(ret.first, args.dist)

\* ---------------------------------------------------------------------
\* local_search_solution on a whole solution (specification SpecLocalSearch)
\* ---------------------------------------------------------------------

\* the customers 1..m in this order, cut into at most MaxMoveRoutes routes
\* (a route may be empty: [0, 0])
CutSolutions(m) ==
    UNION {{[r \in DOMAIN cut |-> <<0>> \o cut[r] \o <<0>>] :
                cut \in Cuts([i \in 1..m |-> i], k)} : k \in 0..MaxMoveRoutes}

\* args.solution, args.dist: the arguments of the call; ret.solution: the
\* solution it returned
InitLocalSearch ==
    /\ pc = "call"
    /\ \E m \in 0..MaxRouteCustomers :
          /\ instance = UnitInstance(1..m)
          /\ args \in [solution : CutSolutions(m), dist : DistTables(m)]
    /\ ret = [solution |-> <<>>]
    /\ ga = NotRunning

CallLocalSearch ==
    /\ pc = "call"
    /\ pc' = "local_search_solution"
    /\ ret' = [ret EXCEPT !.solution = local_search_solution(args.solution, args.dist)]
    /\ UNCHANGED <<instance, args, ga>>

SpecLocalSearch == InitLocalSearch /\ [][CallLocalSearch]_vars

\* C24: local_search_solution returns as many routes as it was given, in
\* the same order; each returned route has the first node, the last node,
\* the set of interior customers and the load of the route it was given,
\* and a route of at most 4 nodes is returned with the same node sequence.
C24_LocalSearchKeepsRouteMembership ==
    pc = "local_search_solution" =>
        /\ Len(ret.solution) = Len(args.solution)
        /\ \A r \in DOMAIN args.solution :
              LET given == args.solution[r]
                  returned == ret.solution[r]
              IN  /\ Len(returned) = Len(given)
                  /\ returned[1] = given[1]
                  /\ returned[Len(returned)] = given[Len(given)]
                  /\ Range(Interior(returned)) = Range(Interior(given))
                  /\ SumDemands(Interior(returned), instance.demands)
                        = SumDemands(Interior(given), instance.demands)
                  /\ Len(given) <= 4 => returned = given

\* a solution of two routes came back with the order of one route changed
\* and a route of at most 4 nodes beside it
C24_Witness ==
    /\ pc = "local_search_solution"
    /\ Len(args.solution) >= 2
    /\ \E r \in DOMAIN args.solution : ret.solution[r] # args.solution[r]
    /\ \E r \in DOMAIN args.solution :
          Len(args.solution[r]) \in 3..4 /\ ret.solution[r] = args.solution[r]

\* ---------------------------------------------------------------------
\* genetic_algorithm: elitism and the best tracker (specification SpecGA)
\* ---------------------------------------------------------------------

\* the number of individuals of the generation that are ahead of individual
\* i: a lower cost, or the same cost and an earlier place in the population
AheadOf(costs, i) ==
    Cardinality({j \in DOMAIN costs :
                    costs[j] < costs[i] \/ (costs[j] = costs[i] /\ j < i)})

\* max(1, pop_size // 20)
NumElites(pop_size) == IF pop_size \div 20 >= 1 THEN pop_size \div 20 ELSE 1

Lowest(S) == CHOOSE c \in S : \A d \in S : c <= d

\* the costs evaluated so far in the run: history holds the lowest cost of
\* each finished generation, costs the costs of the current one
EvaluatedSoFar == Range(ga.history) \cup Range(ga.costs)

\* a step that evaluates one chromosome
EvaluationStep == Len(ga.costs') = Len(ga.costs) + 1

\* C26: best_cost is the lowest cost evaluated so far in all generations
\* and, when the run ends, the lowest entry of history; an evaluation
\* replaces best_chrom by the chromosome it evaluated only on a strictly
\* lower cost and keeps the incumbent on a tie or a higher cost, so that
\* best_chrom is the earliest chromosome that attained best_cost; best_cost
\* never increases.
C26_BestIsFirstMinimiser ==
    /\ [](/\ EvaluatedSoFar # {} => ga.best_cost = Lowest(EvaluatedSoFar)
          /\ pc = "done" => ga.best_cost = Lowest(Range(ga.history)))
    /\ [][/\ ga.best_cost' <= ga.best_cost
          /\ EvaluationStep =>
                LET cost == ga.costs'[Len(ga.costs')] IN
                /\ cost < ga.best_cost =>
                      ga.best_cost' = cost /\ ga.best_chrom' = ga.decoded'
                /\ cost >= ga.best_cost =>
                      ga.best_cost' = ga.best_cost /\ ga.best_chrom' = ga.best_chrom
          /\ ~EvaluationStep =>
                ga.best_cost' = ga.best_cost /\ ga.best_chrom' = ga.best_chrom
      ]_vars

\* in a later generation, a chromosome other than the incumbent was
\* evaluated at exactly best_cost and the incumbent stayed
C26_Witness ==
    /\ ga.gen >= 1
    /\ ga.costs # <<>>
    /\ ga.costs[Len(ga.costs)] = ga.best_cost
    /\ ga.decoded # ga.best_chrom

\* ---------------------------------------------------------------------
\* degenerate and wired selection (specification SpecSelection)
\* ---------------------------------------------------------------------

\* C27: when every fitness is 0, roulette_wheel_selection does not raise and
\* every member of the population is a possible result of the call.
C27_RouletteZeroTotalIsUniform ==
    (pc = "roulette_wheel_selection" /\ \A i \in DOMAIN args.fitnesses : args.fitnesses[i] = 0) =>
        /\ ret.exc = "none"
        /\ \A i \in DOMAIN args.population :
              Chromosome(args.population[i])
                 \in roulette_wheel_selection(args.population, args.fitnesses)

\* C28: the uniform operator as wired (uniform_selection behind
\* uniform_sel_wrapper, called with the population and its fitnesses)
\* returns without raising one chromosome, a member of the population.
C28_UniformReturnsOneChromosome ==
    pc = "uniform_selection" =>
        /\ ret.exc = "none"
        /\ ret.type = "chromosome"
        /\ \E i \in DOMAIN args.population : ret.val = args.population[i]

-----------------------------------------------------------------------------
(* SpecHeap: the operators on list objects. A heap is a sequence of lists, a *)
(* reference is an index into it; a solution is a list of references to its  *)
(* routes. Every statement that builds a list appends one to the heap, every *)
(* statement that changes a list in place rewrites the list its variable     *)
(* refers to. Temporaries that no variable keeps (p1[a:b], fill, the         *)
(* operands of +) are left out.                                              *)

\* the reference a call that raised returns
NoRef == 0

\* mutant of CopyList: `x` for `x[:]`, the same list under a second name
CopyList_Alias(heap, x) == [heap |-> heap, ref |-> x]

\* x[:]: a new list with the items of x
CopyList(heap, x) == [heap |-> Append(heap, heap[x]), ref |-> Len(heap) + 1]

\* a list display, slice, comprehension or concatenation bound to a
\* variable: a new list
NewList(heap, items) == [heap |-> Append(heap, items), ref |-> Len(heap) + 1]

\* an assignment to items or to a slice of x, x.remove, x.insert: the list x
\* refers to holds `items` afterwards
Store(heap, x, items) == [heap EXCEPT ![x] = items]

\* the routes a solution refers to
Deref(heap, solution) == [k \in DOMAIN heap[solution] |-> heap[heap[solution][k]]]

\* order_crossover: child = [None] * size, then every assignment is to child
HeapOrderCrossover(heap, p1, p2, a, b) ==
    LET child == NewList(heap, [i \in 1..Len(heap[p1]) |-> NoneVal])
        sliced == Store(child.heap, child.ref, SliceCopy(heap[p1], a, b))
        filled == order_crossover(heap[p1], heap[p2], a, b)
    IN  IF filled.exc # "none" THEN [heap |-> sliced, ref |-> NoRef]
        ELSE [heap |-> Store(sliced, child.ref, filled.val), ref |-> child.ref]

\* pmx_crossover: c1 = [None] * size, then every assignment is to c1
HeapPmxCrossover(heap, p1, p2, a, b) ==
    LET c1 == NewList(heap, [i \in 1..Len(heap[p1]) |-> NoneVal])
        sliced == Store(c1.heap, c1.ref, SliceCopy(heap[p1], a, b))
        filled == pmx_crossover(heap[p1], heap[p2], a, b)
    IN  IF filled.exc # "none" THEN [heap |-> sliced, ref |-> NoRef]
        ELSE [heap |-> Store(sliced, c1.ref, filled.val), ref |-> c1.ref]

\* swap_mutation: c = chrom[:]; c[i], c[j] = c[j], c[i]; return c
HeapSwapMutation(heap, chrom, i, j) ==
    LET c == CopyList(heap, chrom) IN
    [heap |-> Store(c.heap, c.ref, swap_mutation(c.heap[c.ref], i, j)), ref |-> c.ref]

\* two_opt_route, the two `for` loops from (i, j) on: new = best[:];
\* new[i:j] = reversed(best[i:j]); on an improvement best = new
RECURSIVE HeapTwoOptPass(_, _, _, _, _, _, _)
HeapTwoOptPass(heap, best, best_cost, improved, i, j, dist) ==
    IF i >= Len(heap[best]) - 2
    THEN [heap |-> heap, best |-> best, best_cost |-> best_cost, improved |-> improved]
    ELSE IF j >= Len(heap[best]) - 1
         THEN HeapTwoOptPass(heap, best, best_cost, improved, i + 1, i + 2, dist)
         ELSE LET new == CopyList(heap, best)
                  stored == Store(new.heap, new.ref, ReverseSlice(heap[best], i, j))
                  c == route_cost(stored[new.ref], dist)
              IN  IF AcceptsReversal(c, best_cost)
                  THEN HeapTwoOptPass(stored, new.ref, c, TRUE, i, j + 1, dist)
                  ELSE HeapTwoOptPass(stored, best, best_cost, improved, i, j + 1, dist)

\* two_opt_route, `while improved`
RECURSIVE HeapTwoOptWhile(_, _, _, _)
HeapTwoOptWhile(heap, best, best_cost, dist) ==
    LET r == HeapTwoOptPass(heap, best, best_cost, FALSE, 1, 2, dist) IN
    IF r.improved THEN HeapTwoOptWhile(r.heap, r.best, r.best_cost, dist)
    ELSE [heap |-> r.heap, ref |-> r.best]

\* two_opt_route: `return route` for a short route, else best = route[:]
HeapTwoOptRoute(heap, route, dist) ==
    IF Len(heap[route]) <= 4 THEN [heap |-> heap, ref |-> route]
    ELSE LET best == CopyList(heap, route) IN
         HeapTwoOptWhile(best.heap, best.ref, route_cost(best.heap[best.ref], dist), dist)

\* local_search_solution: [two_opt_route(r, dist) for r in solution], from
\* route k on
RECURSIVE HeapLocalSearchLoop(_, _, _, _, _)
HeapLocalSearchLoop(heap, solution, k, refs, dist) ==
    IF k > Len(heap[solution]) THEN NewList(heap, refs)
    ELSE LET r == HeapTwoOptRoute(heap, heap[solution][k], dist) IN
         HeapLocalSearchLoop(r.heap, solution, k + 1, Append(refs, r.ref), dist)

\* sol = [r[:] for r in solution], from route k on
RECURSIVE HeapCopyRoutes(_, _, _, _)
HeapCopyRoutes(heap, solution, k, refs) ==
    IF k > Len(heap[solution]) THEN NewList(heap, refs)
    ELSE LET r == CopyList(heap, heap[solution][k]) IN
         HeapCopyRoutes(r.heap, solution, k + 1, Append(refs, r.ref))

\* sol[r1] = [depot] + route1 + [depot]; sol[r2] = [depot] + route2 + [depot];
\* return sol
HeapCloseRoutes(heap, sol, r, route1, route2, inst) ==
    LET closed1 == NewList(heap, Closed(heap[route1], inst))
        set1 == Store(closed1.heap, sol, [closed1.heap[sol] EXCEPT ![r[1]] = closed1.ref])
        closed2 == NewList(set1, Closed(set1[route2], inst))
        set2 == Store(closed2.heap, sol, [closed2.heap[sol] EXCEPT ![r[2]] = closed2.ref])
    IN  [heap |-> set2, ref |-> sol]

\* relocate_move on the draws r, c1 and pos
HeapRelocateMove(heap, solution, inst, draw) ==
    LET sol == HeapCopyRoutes(heap, solution, 1, <<>>) IN
    IF Len(sol.heap[sol.ref]) < 2 THEN [heap |-> sol.heap, ref |-> solution]
    ELSE LET route1 == NewList(sol.heap, Interior(Deref(sol.heap, sol.ref)[draw.r[1]]))
             route2 == NewList(route1.heap, Interior(Deref(route1.heap, sol.ref)[draw.r[2]]))
             h == route2.heap
         IN  IF h[route1.ref] = <<>> THEN [heap |-> h, ref |-> solution]
             ELSE LET demand == inst.demands[draw.c1]
                      load2 == SumDemands(h[route2.ref], inst.demands)
                  IN  IF load2 + demand > inst.capacity THEN [heap |-> h, ref |-> solution]
                      ELSE LET removed == Store(h, route1.ref, RemoveFirst(h[route1.ref], draw.c1))
                               inserted == Store(removed, route2.ref,
                                                 InsertAt(removed[route2.ref], draw.pos, draw.c1))
                           IN  HeapCloseRoutes(inserted, sol.ref, draw.r,
                                               route1.ref, route2.ref, inst)

\* exchange_move on the draws r, c1 and c2
HeapExchangeMove(heap, solution, inst, draw) ==
    LET sol == HeapCopyRoutes(heap, solution, 1, <<>>) IN
    IF Len(sol.heap[sol.ref]) < 2 THEN [heap |-> sol.heap, ref |-> solution]
    ELSE LET route1 == NewList(sol.heap, Interior(Deref(sol.heap, sol.ref)[draw.r[1]]))
             route2 == NewList(route1.heap, Interior(Deref(route1.heap, sol.ref)[draw.r[2]]))
             h == route2.heap
         IN  IF h[route1.ref] = <<>> \/ h[route2.ref] = <<>> THEN [heap |-> h, ref |-> solution]
             ELSE LET d1 == inst.demands[draw.c1]
                      d2 == inst.demands[draw.c2]
                      load1 == SumDemands(h[route1.ref], inst.demands)
                      load2 == SumDemands(h[route2.ref], inst.demands)
                  IN  IF load1 - d1 + d2 > inst.capacity THEN [heap |-> h, ref |-> solution]
                      ELSE IF load2 - d2 + d1 > inst.capacity THEN [heap |-> h, ref |-> solution]
                      ELSE LET i1 == Index(h[route1.ref], draw.c1)
                               i2 == Index(h[route2.ref], draw.c2)
                               set1 == Store(h, route1.ref,
                                             [h[route1.ref] EXCEPT ![i1 + 1] = draw.c2])
                               set2 == Store(set1, route2.ref,
                                             [set1[route2.ref] EXCEPT ![i2 + 1] = draw.c1])
                           IN  HeapCloseRoutes(set2, sol.ref, draw.r,
                                               route1.ref, route2.ref, inst)

\* the instance of the evaluation: unit demands, customer n at abscissa n,
\* a capacity one short of the whole demand, so that decode returns a long
\* route and a short one
HeapInstance ==
    [depot |-> 0, customers |-> 1..MaxRouteCustomers,
     demands |-> [n \in 0..MaxRouteCustomers |-> IF n = 0 THEN 0 ELSE 1],
     capacity |-> MaxRouteCustomers - 1,
     coords |-> [n \in 0..MaxRouteCustomers |-> n]]

\* ret.heap: the lists; ret.ref: the list the last call returned;
\* args.refs: the arguments of the last call. A run is either the
\* reproduction of two parents (lists 1 and 2) or the evaluation of a
\* decoded solution (the routes decode returned, then the list of them).
InitHeap ==
    /\ instance = HeapInstance
    /\ ga = NotRunning
    /\ args = [refs |-> <<>>]
    /\ \/ /\ pc = "selection"
          /\ \E p1, p2 \in Perms(1..NumCustomers) :
                ret = [heap |-> <<p1, p2>>, ref |-> NoRef]
       \/ /\ pc = "decode"
          /\ \E chrom \in Perms(instance.customers) :
                LET routes == decode(chrom, instance) IN
                ret = [heap |-> routes \o <<[k \in DOMAIN routes |-> k]>>,
                       ref |-> Len(routes) + 1]

\* child = crossover(p1, p2) with order_crossover
HeapCallOrderCrossover ==
    /\ pc = "selection"
    /\ pc' = "order_crossover"
    /\ args' = [refs |-> <<1, 2>>]
    /\ \E ab \in SortedSample2(Len(ret.heap[1])) :
          ret' = HeapOrderCrossover(ret.heap, 1, 2, ab[1], ab[2])
    /\ UNCHANGED <<instance, ga>>

\* child = crossover(p1, p2) with pmx_crossover
HeapCallPmxCrossover ==
    /\ pc = "selection"
    /\ pc' = "pmx_crossover"
    /\ args' = [refs |-> <<1, 2>>]
    /\ \E ab \in SortedSample2(Len(ret.heap[1])) :
          ret' = HeapPmxCrossover(ret.heap, 1, 2, ab[1], ab[2])
    /\ UNCHANGED <<instance, ga>>

\* child = mutation(child), on the child of a crossover or on a parent
HeapCallSwapMutation ==
    /\ pc \in {"selection", "order_crossover", "pmx_crossover"}
    /\ pc # "selection" => ret.ref # NoRef
    /\ pc' = "swap_mutation"
    /\ LET chrom == IF pc = "selection" THEN 1 ELSE ret.ref IN
       /\ args' = [refs |-> <<chrom>>]
       /\ \E i, j \in 0..Len(ret.heap[chrom]) - 1 :
             /\ i # j
             /\ ret' = HeapSwapMutation(ret.heap, chrom, i, j)
    /\ UNCHANGED <<instance, ga>>

\* sol = local_search_solution(sol, dist)
HeapCallLocalSearch ==
    /\ pc = "decode"
    /\ pc' = "local_search_solution"
    /\ args' = [refs |-> <<ret.ref>>]
    /\ ret' = HeapLocalSearchLoop(ret.heap, ret.ref, 1, <<>>,
                               build_distance_matrix(instance.coords))
    /\ UNCHANGED <<instance, ga>>

\* sol = relocate_move(sol, instance)
HeapCallRelocateMove ==
    /\ pc = "local_search_solution"
    /\ pc' = "relocate_move"
    /\ args' = [refs |-> <<ret.ref>>]
    /\ \E draw \in RelocateDraws(Deref(ret.heap, ret.ref)) :
          ret' = HeapRelocateMove(ret.heap, ret.ref, instance, draw)
    /\ UNCHANGED <<instance, ga>>

\* sol = exchange_move(sol, instance)
HeapCallExchangeMove ==
    /\ pc \in {"local_search_solution", "relocate_move"}
    /\ pc' = "exchange_move"
    /\ args' = [refs |-> <<ret.ref>>]
    /\ \E draw \in ExchangeDraws(Deref(ret.heap, ret.ref)) :
          ret' = HeapExchangeMove(ret.heap, ret.ref, instance, draw)
    /\ UNCHANGED <<instance, ga>>

NextHeap ==
    \/ HeapCallOrderCrossover
    \/ HeapCallPmxCrossover
    \/ HeapCallSwapMutation
    \/ HeapCallLocalSearch
    \/ HeapCallRelocateMove
    \/ HeapCallExchangeMove

SpecHeap == InitHeap /\ [][NextHeap]_vars

\* the lists an argument consists of: the list itself and, for a solution,
\* the routes it refers to
ListsOf(heap, x) ==
    {x} \cup (IF pc' \in {"local_search_solution", "relocate_move", "exchange_move"}
              THEN Range(heap[x]) ELSE {})

\* C29: when order_crossover, pmx_crossover, swap_mutation, two_opt_route
\* (under local_search_solution), relocate_move or exchange_move returns,
\* every list given to the call (the parents, the chromosome, the solution
\* and each of its routes) holds the items it held before the call, and so
\* does every other list that existed before it (the population, the
\* elites, earlier solutions).
C29_ArgumentsUnchanged ==
    [][pc' # pc =>
          /\ \A a \in Range(args'.refs) :
                \A x \in ListsOf(ret.heap, a) : ret.heap'[x] = ret.heap[x]
          /\ \A x \in DOMAIN ret.heap :
                x \in DOMAIN ret.heap' /\ ret.heap'[x] = ret.heap[x]
    ]_vars

\* local_search_solution returned a solution in which one route is a new,
\* reordered list and another is the very list it was given
C29_Witness ==
    /\ pc = "local_search_solution"
    /\ LET given == ret.heap[args.refs[1]]
           returned == ret.heap[ret.ref]
       IN  /\ ret.ref # args.refs[1]
           /\ \E k \in DOMAIN given :
                 returned[k] # given[k] /\ ret.heap[returned[k]] # ret.heap[given[k]]
           /\ \E k \in DOMAIN given : returned[k] = given[k]

-----------------------------------------------------------------------------
(* SpecTwoOptLoop: two_opt_route one turn of `while improved` at a time.    *)
(* The interpreter runs the next statement of a call that has not returned, *)
(* hence the weak fairness on the steps.                                    *)

\* args.route, args.dist: the arguments, over the symmetric tables in which
\* every customer is one unit from the depot and the legs between customers
\* range over LegLengths; ret: the locals best, best_cost and improved
InitTwoOptLoop ==
    /\ pc = "call"
    /\ \E m \in 0..MaxRouteCustomers :
          /\ instance = UnitInstance(1..m)
          /\ args \in {[route |-> <<0>> \o [i \in 1..m |-> i] \o <<0>>, dist |-> d] :
                          d \in {t \in DistTables(m) : \A n \in 1..m : t[<<0, n>>] = 1}}
    /\ ret = [best |-> <<>>, best_cost |-> 0, improved |-> FALSE]
    /\ ga = NotRunning

\* `if len(route) <= 4: return route`, else the three assignments before
\* the loop
TwoOptEnter ==
    /\ pc = "call"
    /\ IF Len(args.route) <= 4
       THEN /\ pc' = "returned"
            /\ ret' = [ret EXCEPT !.best = args.route]
       ELSE /\ pc' = "while"
            /\ ret' = [best |-> args.route,
                       best_cost |-> route_cost(args.route, args.dist),
                       improved |-> TRUE]
    /\ UNCHANGED <<instance, args, ga>>

\* one turn of `while improved`: improved = False, then the two `for` loops
TwoOptTurn ==
    /\ pc = "while"
    /\ ret.improved
    /\ ret' = TwoOptPass(ret.best, ret.best_cost, FALSE, 1, 2, args.dist)
    /\ UNCHANGED <<pc, instance, args, ga>>

\* `return best`, once a turn has left improved False
TwoOptReturn ==
    /\ pc = "while"
    /\ ~ret.improved
    /\ pc' = "returned"
    /\ UNCHANGED <<instance, args, ret, ga>>

NextTwoOptLoop == TwoOptEnter \/ TwoOptTurn \/ TwoOptReturn

SpecTwoOptLoop == InitTwoOptLoop /\ [][NextTwoOptLoop]_vars /\ WF_vars(NextTwoOptLoop)

\* C30: two_opt_route returns on every route and every distance table: the
\* `while improved` loop runs finitely many turns.
C30_TwoOptTerminates == <>(pc = "returned")

\* two_opt_route returned after more than one improving turn of the loop:
\* the route it returned is not the one its first turn ended with
C30_Witness ==
    /\ pc = "returned"
    /\ Len(args.route) > 4
    /\ LET first == TwoOptPass(args.route, route_cost(args.route, args.dist),
                               FALSE, 1, 2, args.dist)
       IN  first.improved /\ first.best # ret.best

====
